---- MODULE Spec2Model ----
(***************************************************************************)
(* Model of src/models/transformer_wrappers.py: the two PROSE wrappers     *)
(* PROSE_Fluids (2D fields) and PROSE_1DPDE (1D PDE with symbol fusion).   *)
(*                                                                         *)
(* A tensor is a symbolic term: the sub-module that produced it, the       *)
(* arguments it was produced from, and its shape.  The wrappers' own code  *)
(* (dispatch on mode, keyword binding, unpacking of data_input.size(),     *)
(* the order and wiring of the sub-module calls, the output mapping) is    *)
(* translated from the source.  The sub-modules themselves (embedder,      *)
(* encoders, fusion, decoder) live in other files of the repository; what  *)
(* they do to shapes and padding masks is taken from the specification.    *)
(***************************************************************************)
EXTENDS Naturals, Sequences, FiniteSets, TLC

VARIABLES self, callNo, frame, heap, returned

vars == <<self, callNo, frame, heap, returned>>

(* ----------------------------- bounds --------------------------------- *)
MaxCalls == 2
MaxBatch == 2
MaxLen == 2

(* ------------------------------ values -------------------------------- *)
T(op, args, shape) == [op |-> op, args |-> args, shape |-> shape, row |-> <<>>]

None == T("None", <<>>, <<>>)

Mask(bs, row) == [op |-> "mask", args |-> <<>>, shape |-> <<bs, Len(row)>>, row |-> row]

FrameworkError(op, args) == T("error", <<T(op, args, <<>>)>>, <<>>)

IsError(t) == t.op = "error"

Str(s) == [type |-> "str", val |-> s]

NoneMode == [type |-> "NoneType", val |-> ""]

Modes == {Str("fwd"), Str("generate"), Str("FWD"), Str("Generate"), Str(""), NoneMode}

ModeEq(m, s) == m.type = "str" /\ m.val = s

Format(m) == IF m.type = "str" THEN m.val ELSE "None"

ValidMode(m) == ModeEq(m, "fwd") \/ ModeEq(m, "generate")

(* --------------------------- exceptions ------------------------------- *)
NoExc == [type |-> "", site |-> "", msg |-> <<>>]

Exc(type, site, msg) == [type |-> type, site |-> site, msg |-> msg]

\* mutant: the message does not name the mode
UnknownMode_noMode(m) == Exc("Exception", "forward", <<"Unknown mode">>)

UnknownMode(m) == Exc("Exception", "forward", <<"Unknown mode: ", Format(m)>>)

(* --------------------------- dictionaries ----------------------------- *)
EmptyMap == [k \in {} |-> None]

NoDict == [id |-> 0, entries |-> EmptyMap, writes |-> [k \in {} |-> 0]]

\* mutant: one mapping shared by all calls, emptied on entry
NewDict_shared(h) == [id |-> 1, entries |-> EmptyMap, writes |-> [k \in {} |-> 0]]

NewDict(h) == [id |-> Cardinality(h) + 1, entries |-> EmptyMap, writes |-> [k \in {} |-> 0]]

DictSet(d, key, v) ==
  [d EXCEPT
     !.entries = [k \in (DOMAIN d.entries) \cup {key} |-> IF k = key THEN v ELSE d.entries[k]],
     !.writes = [k \in (DOMAIN d.writes) \cup {key} |->
                   IF k = key THEN (IF key \in DOMAIN d.writes THEN d.writes[key] + 1 ELSE 1)
                   ELSE d.writes[k]]]

(* ----------------------------- results -------------------------------- *)
NoResult == [kind |-> "none", type |-> "none", tensor |-> None, dict |-> NoDict, exc |-> NoExc]

ReturnTensor(t) == [kind |-> "return", type |-> "Tensor", tensor |-> t, dict |-> NoDict, exc |-> NoExc]

ReturnDict(d) == [kind |-> "return", type |-> "dict", tensor |-> None, dict |-> d, exc |-> NoExc]

Raised(e) == [kind |-> "raise", type |-> "exc", tensor |-> None, dict |-> NoDict, exc |-> e]

(* ------------------- construction: configurations --------------------- *)
Wrappers == {"PROSE_Fluids", "PROSE_1DPDE"}

Configs == {[x_num |-> 4, max_output_dim |-> 1, patch_num |-> p, dim |-> 8] : p \in {1, 2}}

Patches(s) == IF s.cls = "PROSE_Fluids" THEN s.patch_num * s.patch_num ELSE s.patch_num

Selves == {[cls |-> c, x_num |-> g.x_num, max_output_dim |-> g.max_output_dim,
            patch_num |-> g.patch_num, dim |-> g.dim] : c \in Wrappers, g \in Configs}

(* ------------- sub-modules (shape and mask behaviour) ----------------- *)
Zeros(n) == [i \in 1..n |-> FALSE]

EmbedderEncode(s, x, t) ==
  T("embedder.encode", <<x, t>>, <<x.shape[1], x.shape[2] * Patches(s), s.dim>>)

DataEncoder(s, x) == T("data_encoder", <<x>>, x.shape)

SymbolEncoder(s, tok, mask) ==
  IF mask # None /\ mask.shape # tok.shape
  THEN FrameworkError("symbol_encoder", <<tok, mask>>)
  ELSE T("symbol_encoder", <<tok, mask>>, <<tok.shape[1], tok.shape[2], s.dim>>)

FusionMask(x0, x1, m0, m1) ==
  IF m0 = None /\ m1 = None THEN None
  ELSE Mask(x0.shape[1],
            (IF m0 = None THEN Zeros(x0.shape[2]) ELSE m0.row) \o
            (IF m1 = None THEN Zeros(x1.shape[2]) ELSE m1.row))

Fusion(s, x0, x1, m0, m1) ==
  [fused |-> T("fusion", <<x0, x1, m0, m1>>, <<x0.shape[1], x0.shape[2] + x1.shape[2], s.dim>>),
   mask |-> FusionMask(x0, x1, m0, m1)]

GetQueryEmb(s, times) ==
  T("data_decoder.get_query_emb", <<times>>, <<times.shape[1], times.shape[2] * Patches(s), s.dim>>)

DataDecoder(s, src, q, mask) == T("data_decoder", <<src, q, mask>>, q.shape)

EmbedderDecode(s, x) ==
  T("embedder.decode", <<x>>,
    IF s.cls = "PROSE_Fluids"
    THEN <<x.shape[1], x.shape[2] \div Patches(s), s.x_num, s.x_num, s.max_output_dim>>
    ELSE <<x.shape[1], x.shape[2] \div Patches(s), s.x_num, s.max_output_dim>>)

(* ------------------------- caller's inputs ---------------------------- *)
DataInput(s, bs, il, rank) ==
  T("data_input", <<>>,
    IF rank = 5 THEN <<bs, il, s.x_num, s.x_num, s.max_output_dim>>
    ELSE <<bs, il, s.x_num, s.max_output_dim>>)

Times(name, bs, n) == T(name, <<>>, <<bs, n, 1>>)

SymbolInput(bs, n) == T("symbol_input", <<>>, <<bs, n>>)

\* get_padding_mask(lengths): position i is padded iff i lies beyond the length
PaddingRow(n, len) == [i \in 1..n |-> i > len]

Masks(bs) == {None} \cup {Mask(bs, PaddingRow(n, len)) : n \in 1..MaxLen, len \in 0..MaxLen}


Required == {"data_input", "input_times", "output_times", "symbol_input"}

Params == Required \cup {"symbol_padding_mask"}

BaseKwargs(s) ==
  {[data_input |-> DataInput(s, bs, il, rank), input_times |-> Times("input_times", bs, il),
    output_times |-> Times("output_times", bs, ol), symbol_input |-> SymbolInput(bs, sl)] :
      bs \in 1..MaxBatch, il \in 1..MaxLen, ol \in 1..MaxLen, sl \in 1..MaxLen, rank \in {4, 5}}

With(k, name, v) == [n \in (DOMAIN k) \cup {name} |-> IF n = name THEN v ELSE k[n]]

Without(k, name) == [n \in (DOMAIN k) \ {name} |-> k[n]]

KwargsSet(s) ==
  BaseKwargs(s)
  \cup UNION {{With(k, "symbol_padding_mask", m) : m \in Masks(k.data_input.shape[1])} :
               k \in BaseKwargs(s)}
  \cup {Without(k, "symbol_input") : k \in BaseKwargs(s)}
  \cup {With(k, "extra", None) : k \in BaseKwargs(s)}

(* ----------------------------- frames --------------------------------- *)
Unbound ==
  [data_input |-> None, input_times |-> None, output_times |-> None, symbol_input |-> None,
   symbol_padding_mask |-> None, data_encoded |-> None, symbol_encoded |-> None,
   fused |-> None, fused_mask |-> None, query_emb |-> None, data_output |-> None]

IdleFrame ==
  [pc |-> "idle", mode |-> NoneMode, kwargs |-> EmptyMap, passed |-> EmptyMap,
   loc |-> Unbound, trace |-> <<>>, output |-> NoDict, result |-> NoResult]

StartFrame(m, k) == [IdleFrame EXCEPT !.pc = "forward", !.mode = m, !.kwargs = k]

Raise(f, e) == [f EXCEPT !.pc = "done", !.result = Raised(e)]

BindOk(k) == Required \subseteq DOMAIN k /\ DOMAIN k \subseteq Params

Bind(k) ==
  [Unbound EXCEPT !.data_input = k["data_input"], !.input_times = k["input_times"],
                  !.output_times = k["output_times"], !.symbol_input = k["symbol_input"],
                  !.symbol_padding_mask =
                     IF "symbol_padding_mask" \in DOMAIN k THEN k["symbol_padding_mask"] ELSE None]

\* a sub-module call: the call is recorded, and its result is bound or its error propagates
Invoke(f, r, var, next) ==
  IF IsError(r)
  THEN [f EXCEPT !.trace = Append(@, r.args[1]), !.pc = "done",
                 !.result = Raised(Exc("FrameworkError", r.args[1].op, <<>>))]
  ELSE [f EXCEPT !.trace = Append(@, r), !.loc[var] = r, !.pc = next]

(* ------------------------- PROSE_Fluids ------------------------------- *)
\* mutant: the keyword arguments are bound before the mode is looked at
PROSE_Fluids_forward_bindsFirst(f) ==
  IF ~BindOk(f.kwargs) THEN Raise(f, Exc("TypeError", "fwd", <<>>))
  ELSE IF ModeEq(f.mode, "fwd") THEN [f EXCEPT !.pc = "fwd", !.passed = f.kwargs]
  ELSE IF ModeEq(f.mode, "generate") THEN [f EXCEPT !.pc = "generate", !.passed = f.kwargs]
  ELSE Raise(f, UnknownMode(f.mode))

PROSE_Fluids_forward(f) ==
  IF ModeEq(f.mode, "fwd") THEN [f EXCEPT !.pc = "fwd", !.passed = f.kwargs]
  ELSE IF ModeEq(f.mode, "generate") THEN [f EXCEPT !.pc = "generate", !.passed = f.kwargs]
  ELSE Raise(f, UnknownMode(f.mode))

PROSE_Fluids_generate(f) == [f EXCEPT !.pc = "fwd", !.passed = f.passed]

\* binding of the keyword arguments, then the unpacking of data_input.size()
PROSE_Fluids_fwd_enter(f) ==
  IF ~BindOk(f.passed) THEN Raise(f, Exc("TypeError", "fwd", <<>>))
  ELSE IF Len(f.passed["data_input"].shape) # 5 THEN Raise(f, Exc("ValueError", "fwd", <<>>))
  ELSE [f EXCEPT !.loc = Bind(f.passed), !.pc = "embed"]

PROSE_Fluids_fwd_embed(s, f) ==
  Invoke(f, EmbedderEncode(s, f.loc.data_input, f.loc.input_times), "data_input", "encode")

PROSE_Fluids_fwd_encode(s, f) ==
  Invoke(f, DataEncoder(s, f.loc.data_input), "data_encoded", "fuse")

\* mutant: the caller's symbol mask is handed on as the decoder's mask
PROSE_Fluids_fwd_fuse_leaksMask(f) ==
  [f EXCEPT !.loc.fused = f.loc.data_encoded, !.loc.fused_mask = f.loc.symbol_padding_mask,
            !.pc = "query"]

PROSE_Fluids_fwd_fuse(f) ==
  [f EXCEPT !.loc.fused = f.loc.data_encoded, !.loc.fused_mask = None, !.pc = "query"]

PROSE_Fluids_fwd_query(s, f) ==
  Invoke(f, GetQueryEmb(s, f.loc.output_times), "query_emb", "decode")

PROSE_Fluids_fwd_decode(s, f) ==
  Invoke(f, DataDecoder(s, f.loc.fused, f.loc.query_emb, f.loc.fused_mask), "data_output", "inverse")

PROSE_Fluids_fwd_inverse(s, f) ==
  Invoke(f, EmbedderDecode(s, f.loc.data_output), "data_output", "return")

PROSE_Fluids_fwd_return(f) == [f EXCEPT !.pc = "done", !.result = ReturnTensor(f.loc.data_output)]

(* -------------------------- PROSE_1DPDE ------------------------------- *)
PROSE_1DPDE_forward(f) ==
  IF ModeEq(f.mode, "fwd") THEN [f EXCEPT !.pc = "fwd", !.passed = f.kwargs]
  ELSE IF ModeEq(f.mode, "generate") THEN [f EXCEPT !.pc = "generate", !.passed = f.kwargs]
  ELSE Raise(f, UnknownMode(f.mode))

\* mutant: generate does not pass the padding mask on
PROSE_1DPDE_generate_dropsMask(f) ==
  [f EXCEPT !.pc = "fwd", !.passed = Without(f.passed, "symbol_padding_mask")]

PROSE_1DPDE_generate(f) == [f EXCEPT !.pc = "fwd", !.passed = f.passed]

\* binding of the keyword arguments, output = {}, then the unpacking of data_input.size()
PROSE_1DPDE_fwd_enter(f, h) ==
  IF ~BindOk(f.passed) THEN Raise(f, Exc("TypeError", "fwd", <<>>))
  ELSE IF Len(f.passed["data_input"].shape) # 4
       THEN Raise([f EXCEPT !.output = NewDict(h)], Exc("ValueError", "fwd", <<>>))
  ELSE [f EXCEPT !.loc = Bind(f.passed), !.output = NewDict(h), !.pc = "embed"]

PROSE_1DPDE_fwd_embed(s, f) ==
  LET g == Invoke(f, EmbedderEncode(s, f.loc.data_input, f.loc.input_times), "data_input", "encode")
  IN IF g.pc = "done" THEN g
     ELSE [g EXCEPT !.output = DictSet(@, "data_embeded", g.loc.data_input)]

PROSE_1DPDE_fwd_encode(s, f) ==
  Invoke(f, DataEncoder(s, f.loc.data_input), "data_encoded", "symbol")

PROSE_1DPDE_fwd_symbol(s, f) ==
  Invoke(f, SymbolEncoder(s, f.loc.symbol_input, f.loc.symbol_padding_mask),
         "symbol_encoded", "fuse")

\* mutant: the symbol encoding is fused with itself
PROSE_1DPDE_fwd_fuse_x0Symbol(s, f) ==
  LET r == Fusion(s, f.loc.symbol_encoded, f.loc.symbol_encoded, None, f.loc.symbol_padding_mask)
      g == Invoke(f, r.fused, "fused", "query")
  IN [g EXCEPT !.loc.fused_mask = r.mask,
               !.output = DictSet(DictSet(DictSet(@, "data_encoded", g.loc.data_encoded),
                                          "symbol_encoded", g.loc.symbol_encoded),
                                  "fused", g.loc.fused)]

\* mutant: fusion is not told which symbol positions are padded
PROSE_1DPDE_fwd_fuse_noMask(s, f) ==
  LET r == Fusion(s, f.loc.data_encoded, f.loc.symbol_encoded, None, None)
      g == Invoke(f, r.fused, "fused", "query")
  IN [g EXCEPT !.loc.fused_mask = r.mask,
               !.output = DictSet(DictSet(DictSet(@, "data_encoded", g.loc.data_encoded),
                                          "symbol_encoded", g.loc.symbol_encoded),
                                  "fused", g.loc.fused)]

PROSE_1DPDE_fwd_fuse(s, f) ==
  LET r == Fusion(s, f.loc.data_encoded, f.loc.symbol_encoded, None, f.loc.symbol_padding_mask)
      g == Invoke(f, r.fused, "fused", "query")
  IN [g EXCEPT !.loc.fused_mask = r.mask,
               !.output = DictSet(DictSet(DictSet(@, "data_encoded", g.loc.data_encoded),
                                          "symbol_encoded", g.loc.symbol_encoded),
                                  "fused", g.loc.fused)]

PROSE_1DPDE_fwd_query(s, f) ==
  Invoke(f, GetQueryEmb(s, f.loc.output_times), "query_emb", "decode")

\* mutant: the decoder attends to the data encoding, not to the fused context
PROSE_1DPDE_fwd_decode_srcUnfused(s, f) ==
  Invoke(f, DataDecoder(s, f.loc.data_encoded, f.loc.query_emb, f.loc.fused_mask),
         "data_output", "inverse")

PROSE_1DPDE_fwd_decode(s, f) ==
  Invoke(f, DataDecoder(s, f.loc.fused, f.loc.query_emb, f.loc.fused_mask), "data_output", "inverse")

PROSE_1DPDE_fwd_inverse(s, f) ==
  LET g == Invoke(f, EmbedderDecode(s, f.loc.data_output), "data_output", "return")
  IN IF g.pc = "done" THEN g
     ELSE [g EXCEPT !.output = DictSet(@, "data_output", g.loc.data_output)]

PROSE_1DPDE_fwd_return(f) == [f EXCEPT !.pc = "done", !.result = ReturnDict(f.output)]

(* --------------------- one step of a call, and a whole call ----------- *)
StepFrame(s, f, h) ==
  IF s.cls = "PROSE_Fluids"
  THEN CASE f.pc = "forward" -> PROSE_Fluids_forward(f)
         [] f.pc = "generate" -> PROSE_Fluids_generate(f)
         [] f.pc = "fwd" -> PROSE_Fluids_fwd_enter(f)
         [] f.pc = "embed" -> PROSE_Fluids_fwd_embed(s, f)
         [] f.pc = "encode" -> PROSE_Fluids_fwd_encode(s, f)
         [] f.pc = "fuse" -> PROSE_Fluids_fwd_fuse(f)
         [] f.pc = "query" -> PROSE_Fluids_fwd_query(s, f)
         [] f.pc = "decode" -> PROSE_Fluids_fwd_decode(s, f)
         [] f.pc = "inverse" -> PROSE_Fluids_fwd_inverse(s, f)
         [] f.pc = "return" -> PROSE_Fluids_fwd_return(f)
         [] OTHER -> f
  ELSE CASE f.pc = "forward" -> PROSE_1DPDE_forward(f)
         [] f.pc = "generate" -> PROSE_1DPDE_generate(f)
         [] f.pc = "fwd" -> PROSE_1DPDE_fwd_enter(f, h)
         [] f.pc = "embed" -> PROSE_1DPDE_fwd_embed(s, f)
         [] f.pc = "encode" -> PROSE_1DPDE_fwd_encode(s, f)
         [] f.pc = "symbol" -> PROSE_1DPDE_fwd_symbol(s, f)
         [] f.pc = "fuse" -> PROSE_1DPDE_fwd_fuse(s, f)
         [] f.pc = "query" -> PROSE_1DPDE_fwd_query(s, f)
         [] f.pc = "decode" -> PROSE_1DPDE_fwd_decode(s, f)
         [] f.pc = "inverse" -> PROSE_1DPDE_fwd_inverse(s, f)
         [] f.pc = "return" -> PROSE_1DPDE_fwd_return(f)
         [] OTHER -> f

RECURSIVE RunFrom(_, _, _)
RunFrom(s, f, h) ==
  IF f.pc \in {"done", "idle"} THEN f ELSE RunFrom(s, StepFrame(s, f, h), h)

\* the whole call forward(mode, **kwargs) on the wrapper s
Run(s, m, k) == RunFrom(s, StartFrame(m, k), {})

(* --------------------------- the state machine ------------------------ *)
Init ==
  /\ self \in Selves
  /\ callNo = 0
  /\ frame = IdleFrame
  /\ heap = {}
  /\ returned = {}

\* the caller invokes model(mode, **kwargs)
Call ==
  /\ frame.pc = "idle"
  /\ callNo < MaxCalls
  /\ \E m \in Modes, k \in KwargsSet(self) : frame' = StartFrame(m, k)
  /\ callNo' = callNo + 1
  /\ UNCHANGED <<self, heap, returned>>

\* the call is over: the caller keeps the mapping it was handed, the frame is gone
Finish ==
  /\ frame.pc = "done"
  /\ frame' = IdleFrame
  /\ returned' = IF frame.result.type = "dict" THEN returned \cup {frame.result.dict.id}
                 ELSE returned
  /\ UNCHANGED <<self, callNo, heap>>

Allocated(f) == IF f.output.id = 0 THEN {} ELSE {f.output.id}

Fluids_forward ==
  /\ self.cls = "PROSE_Fluids"
  /\ frame.pc = "forward"
  /\ frame' = PROSE_Fluids_forward(frame)
  /\ UNCHANGED <<self, callNo, heap, returned>>

Fluids_generate ==
  /\ self.cls = "PROSE_Fluids"
  /\ frame.pc = "generate"
  /\ frame' = PROSE_Fluids_generate(frame)
  /\ UNCHANGED <<self, callNo, heap, returned>>

Fluids_fwd_enter ==
  /\ self.cls = "PROSE_Fluids"
  /\ frame.pc = "fwd"
  /\ frame' = PROSE_Fluids_fwd_enter(frame)
  /\ UNCHANGED <<self, callNo, heap, returned>>

Fluids_fwd_embed ==
  /\ self.cls = "PROSE_Fluids"
  /\ frame.pc = "embed"
  /\ frame' = PROSE_Fluids_fwd_embed(self, frame)
  /\ UNCHANGED <<self, callNo, heap, returned>>

Fluids_fwd_encode ==
  /\ self.cls = "PROSE_Fluids"
  /\ frame.pc = "encode"
  /\ frame' = PROSE_Fluids_fwd_encode(self, frame)
  /\ UNCHANGED <<self, callNo, heap, returned>>

Fluids_fwd_fuse ==
  /\ self.cls = "PROSE_Fluids"
  /\ frame.pc = "fuse"
  /\ frame' = PROSE_Fluids_fwd_fuse(frame)
  /\ UNCHANGED <<self, callNo, heap, returned>>

Fluids_fwd_query ==
  /\ self.cls = "PROSE_Fluids"
  /\ frame.pc = "query"
  /\ frame' = PROSE_Fluids_fwd_query(self, frame)
  /\ UNCHANGED <<self, callNo, heap, returned>>

Fluids_fwd_decode ==
  /\ self.cls = "PROSE_Fluids"
  /\ frame.pc = "decode"
  /\ frame' = PROSE_Fluids_fwd_decode(self, frame)
  /\ UNCHANGED <<self, callNo, heap, returned>>

Fluids_fwd_inverse ==
  /\ self.cls = "PROSE_Fluids"
  /\ frame.pc = "inverse"
  /\ frame' = PROSE_Fluids_fwd_inverse(self, frame)
  /\ UNCHANGED <<self, callNo, heap, returned>>

Fluids_fwd_return ==
  /\ self.cls = "PROSE_Fluids"
  /\ frame.pc = "return"
  /\ frame' = PROSE_Fluids_fwd_return(frame)
  /\ UNCHANGED <<self, callNo, heap, returned>>

PDE_forward ==
  /\ self.cls = "PROSE_1DPDE"
  /\ frame.pc = "forward"
  /\ frame' = PROSE_1DPDE_forward(frame)
  /\ UNCHANGED <<self, callNo, heap, returned>>

PDE_generate ==
  /\ self.cls = "PROSE_1DPDE"
  /\ frame.pc = "generate"
  /\ frame' = PROSE_1DPDE_generate(frame)
  /\ UNCHANGED <<self, callNo, heap, returned>>

PDE_fwd_enter ==
  /\ self.cls = "PROSE_1DPDE"
  /\ frame.pc = "fwd"
  /\ frame' = PROSE_1DPDE_fwd_enter(frame, heap)
  /\ heap' = heap \cup Allocated(frame')
  /\ UNCHANGED <<self, callNo, returned>>

PDE_fwd_embed ==
  /\ self.cls = "PROSE_1DPDE"
  /\ frame.pc = "embed"
  /\ frame' = PROSE_1DPDE_fwd_embed(self, frame)
  /\ UNCHANGED <<self, callNo, heap, returned>>

PDE_fwd_encode ==
  /\ self.cls = "PROSE_1DPDE"
  /\ frame.pc = "encode"
  /\ frame' = PROSE_1DPDE_fwd_encode(self, frame)
  /\ UNCHANGED <<self, callNo, heap, returned>>

PDE_fwd_symbol ==
  /\ self.cls = "PROSE_1DPDE"
  /\ frame.pc = "symbol"
  /\ frame' = PROSE_1DPDE_fwd_symbol(self, frame)
  /\ UNCHANGED <<self, callNo, heap, returned>>

PDE_fwd_fuse ==
  /\ self.cls = "PROSE_1DPDE"
  /\ frame.pc = "fuse"
  /\ frame' = PROSE_1DPDE_fwd_fuse(self, frame)
  /\ UNCHANGED <<self, callNo, heap, returned>>

PDE_fwd_query ==
  /\ self.cls = "PROSE_1DPDE"
  /\ frame.pc = "query"
  /\ frame' = PROSE_1DPDE_fwd_query(self, frame)
  /\ UNCHANGED <<self, callNo, heap, returned>>

PDE_fwd_decode ==
  /\ self.cls = "PROSE_1DPDE"
  /\ frame.pc = "decode"
  /\ frame' = PROSE_1DPDE_fwd_decode(self, frame)
  /\ UNCHANGED <<self, callNo, heap, returned>>

PDE_fwd_inverse ==
  /\ self.cls = "PROSE_1DPDE"
  /\ frame.pc = "inverse"
  /\ frame' = PROSE_1DPDE_fwd_inverse(self, frame)
  /\ UNCHANGED <<self, callNo, heap, returned>>

PDE_fwd_return ==
  /\ self.cls = "PROSE_1DPDE"
  /\ frame.pc = "return"
  /\ frame' = PROSE_1DPDE_fwd_return(frame)
  /\ UNCHANGED <<self, callNo, heap, returned>>

Next ==
  \/ Call \/ Finish
  \/ Fluids_forward \/ Fluids_generate \/ Fluids_fwd_enter \/ Fluids_fwd_embed
  \/ Fluids_fwd_encode \/ Fluids_fwd_fuse \/ Fluids_fwd_query \/ Fluids_fwd_decode
  \/ Fluids_fwd_inverse \/ Fluids_fwd_return
  \/ PDE_forward \/ PDE_generate \/ PDE_fwd_enter \/ PDE_fwd_embed \/ PDE_fwd_encode
  \/ PDE_fwd_symbol \/ PDE_fwd_fuse \/ PDE_fwd_query \/ PDE_fwd_decode \/ PDE_fwd_inverse
  \/ PDE_fwd_return

Spec == Init /\ [][Next]_vars

(* ======================= properties of the wrappers =================== *)
Done == frame.pc = "done"

Returns == Done /\ frame.result.kind = "return"

\* what a caller can observe of a finished call, up to the identity of a returned mapping
Outcome(f) == [trace |-> f.trace, result |-> [f.result EXCEPT !.dict.id = 0]]

Ops(tr) == [i \in 1..Len(tr) |-> tr[i].op]

IsPrefix(a, b) == Len(a) <= Len(b) /\ \A i \in 1..Len(a) : a[i] = b[i]

Stages(cls) ==
  IF cls = "PROSE_Fluids"
  THEN <<"embedder.encode", "data_encoder", "data_decoder.get_query_emb", "data_decoder",
         "embedder.decode">>
  ELSE <<"embedder.encode", "data_encoder", "symbol_encoder", "fusion",
         "data_decoder.get_query_emb", "data_decoder", "embedder.decode">>

\* the i-th stage from the end of a finished valid call
Last(tr, i) == tr[Len(tr) - i]

OtherMode(m) == IF ModeEq(m, "fwd") THEN Str("generate") ELSE Str("fwd")

(* C1: for both wrappers and every input, forward(mode="generate") ends as
   forward(mode="fwd") does on the same keyword arguments: the same sub-module
   calls with the same arguments in the same order, and the same outcome. *)
C1_GenerateAliasesFwd ==
  (Done /\ ValidMode(frame.mode)) =>
     Outcome(Run(self, OtherMode(frame.mode), frame.kwargs)) = Outcome(frame)

C1_Witness ==
  /\ Returns
  /\ ModeEq(frame.mode, "generate")
  /\ "symbol_padding_mask" \in DOMAIN frame.kwargs
  /\ frame.kwargs["symbol_padding_mask"] # None

(* C2 as stated: an unrecognized mode ends in an error whose message contains the
   mode value, and no other error is raised by the wrapper's own code. *)
C2_OnlyWrapperError ==
  Done =>
    /\ ~ValidMode(frame.mode) =>
         /\ frame.result.kind = "raise"
         /\ \E i \in DOMAIN frame.result.exc.msg : frame.result.exc.msg[i] = Format(frame.mode)
    /\ (frame.result.kind = "raise" /\ frame.result.exc.site \in {"forward", "fwd"}) =>
         ~ValidMode(frame.mode)

(* C2 amended: an unrecognized mode ends in the Exception of forward's raise
   statement, whose message contains the mode value; that Exception is raised for
   no valid mode; with a valid mode the wrapper's own code fails exactly when the
   keyword arguments do not bind to fwd's parameters (TypeError) or data_input has
   not the rank that fwd unpacks (ValueError). *)
C2_UnknownModeRaises ==
  Done =>
    /\ ~ValidMode(frame.mode) =>
         /\ frame.result.kind = "raise"
         /\ frame.result.exc.type = "Exception"
         /\ frame.result.exc.site = "forward"
         /\ \E i \in DOMAIN frame.result.exc.msg : frame.result.exc.msg[i] = Format(frame.mode)
    /\ frame.result.exc.type = "Exception" => ~ValidMode(frame.mode)
    /\ ValidMode(frame.mode) =>
         /\ frame.result.exc.type = "TypeError" <=> ~BindOk(frame.kwargs)
         /\ frame.result.exc.type = "ValueError" <=>
              /\ BindOk(frame.kwargs)
              /\ Len(frame.kwargs["data_input"].shape) #
                   (IF self.cls = "PROSE_Fluids" THEN 5 ELSE 4)

C2_Witness ==
  /\ Done
  /\ frame.mode \in {Str("FWD"), Str(""), NoneMode}
  /\ frame.result.exc.type = "Exception"

(* C3: for both wrappers and both valid modes the value forward returns is a field
   tensor of shape (batch, output_len, grid..., channel), batch and grid taken from
   data_input and output_len from output_times. *)
C3_OutputIsFieldTensor ==
  Returns =>
    /\ frame.result.type = "Tensor"
    /\ LET d == frame.kwargs["data_input"].shape
       IN frame.result.tensor.shape =
            <<d[1], frame.kwargs["output_times"].shape[2]>> \o SubSeq(d, 3, Len(d))

(* C4: the two variants differ only in the symbol-encoder/fusion path: on the same
   mode and keyword arguments (data_input laid out on each variant's own grid) both
   accept or both reject the call, both run the same stages apart from
   symbol_encoder and fusion, and both return the same kind of result, the
   inverse-embedded decoder output. *)
OtherSelf == [self EXCEPT !.cls = IF self.cls = "PROSE_Fluids" THEN "PROSE_1DPDE" ELSE "PROSE_Fluids"]

Rank(s) == IF s.cls = "PROSE_Fluids" THEN 5 ELSE 4

\* the same call for the other variant: a field of its rank iff this one's field has this rank
OtherKwargs(k) ==
  IF "data_input" \notin DOMAIN k THEN k
  ELSE LET d == k["data_input"].shape
       IN With(k, "data_input",
               DataInput(OtherSelf, d[1], d[2],
                         IF Len(d) = Rank(self) THEN Rank(OtherSelf) ELSE Rank(self)))

Common(tr) == SelectSeq(Ops(tr), LAMBDA o : o \notin {"symbol_encoder", "fusion"})

\* the wrappers' own steps agree: the call is accepted or rejected alike, with the same stages
SameSteps(o, f) ==
  ("FrameworkError" \notin {o.result.exc.type, f.result.exc.type}) =>
     /\ o.result.kind = f.result.kind
     /\ o.result.exc = f.result.exc
     /\ Common(o.trace) = Common(f.trace)

C4_VariantsDifferOnlyInFusion ==
  Done =>
    LET o == Run(OtherSelf, frame.mode, OtherKwargs(frame.kwargs))
    IN /\ SameSteps(o, frame)
       /\ (o.result.kind = "return" /\ frame.result.kind = "return") =>
            /\ o.result.type = frame.result.type
            /\ o.result.tensor.op = "embedder.decode"
            /\ frame.result.tensor.op = "embedder.decode"

(* C5: in every forward call the stages run in the order embedder.encode,
   data_encoder, (1D: symbol_encoder, fusion), get_query_emb, data_decoder,
   embedder.decode, none skipped or repeated; a call that returns ran them all,
   each on the result of the stage that feeds it. *)
C5_StageOrder ==
  /\ IsPrefix(Ops(frame.trace), Stages(self.cls))
  /\ Returns =>
       LET tr == frame.trace
           k == Bind(frame.kwargs)
       IN /\ Ops(tr) = Stages(self.cls)
          /\ tr[1].args = <<k.data_input, k.input_times>>
          /\ tr[2].args = <<tr[1]>>
          /\ self.cls = "PROSE_1DPDE" => /\ tr[3].args[1] = k.symbol_input
                                         /\ tr[4].args[1] = tr[2]
                                         /\ tr[4].args[2] = tr[3]
          /\ Last(tr, 2).args = <<k.output_times>>
          /\ Last(tr, 1).args[1] = (IF self.cls = "PROSE_1DPDE" THEN tr[4] ELSE tr[2])
          /\ Last(tr, 1).args[2] = Last(tr, 2)
          /\ Last(tr, 0).args = <<Last(tr, 1)>>

C5_Witness == Returns /\ self.cls = "PROSE_1DPDE" /\ Len(frame.trace) = 7

(* C6: during a forward call the latent sequences keep their shapes: every latent
   the sub-modules hand back has the same hidden dimension; the data sequence is
   patch count x input time steps long and data_encoder leaves it so; in the 1D
   variant the fused sequence is data_len + symbol_len long. *)
Latents == {i \in DOMAIN frame.trace : /\ frame.trace[i].shape # <<>>
                                       /\ frame.trace[i].op # "embedder.decode"}

C6_LatentShapes ==
  LET tr == frame.trace
  IN /\ \A i \in Latents : Len(tr[i].shape) = 3 /\ tr[i].shape[3] = tr[1].shape[3]
     /\ Len(tr) >= 1 => /\ tr[1].shape[1] = frame.kwargs["data_input"].shape[1]
                        /\ tr[1].shape[2] = Patches(self) * frame.kwargs["data_input"].shape[2]
     /\ Len(tr) >= 2 => tr[2].shape = tr[1].shape
     /\ (self.cls = "PROSE_1DPDE" /\ Len(tr) >= 4) =>
          /\ tr[3].shape[2] = frame.kwargs["symbol_input"].shape[2]
          /\ tr[4].shape[2] = tr[1].shape[2] + frame.kwargs["symbol_input"].shape[2]

C6_Witness ==
  /\ Returns
  /\ self.cls = "PROSE_1DPDE"
  /\ frame.trace[4].shape[2] > frame.trace[1].shape[2]
  /\ frame.trace[1].shape[2] > frame.kwargs["data_input"].shape[2]
  /\ frame.trace[1].shape[2] # frame.kwargs["symbol_input"].shape[2]

(* C7: PROSE_1DPDE.fwd hands the caller's symbol padding mask unchanged to
   symbol_encoder and to fusion (as key_padding_mask1, key_padding_mask0 = None), and
   hands the decoder the mask fusion returns; a mask that got that far is as long as
   the token sequence, and every symbol position it marks as padded is marked as
   padded in the decoder's mask, at its place behind the data positions. *)
Supplied == Bind(frame.kwargs).symbol_padding_mask

NoSymbols(k) ==
  With(Without(k, "symbol_padding_mask"), "symbol_input", SymbolInput(k["data_input"].shape[1], 1))

C8_SymbolsIgnored ==
  (Done /\ self.cls = "PROSE_Fluids" /\ ValidMode(frame.mode)) =>
     /\ BindOk(frame.kwargs) =>
          Outcome(Run(self, frame.mode, NoSymbols(frame.kwargs))) = Outcome(frame)
     /\ Returns => /\ Last(frame.trace, 1).args[1] = frame.trace[2]
                   /\ Last(frame.trace, 1).args[3] = None
     /\ "symbol_input" \notin DOMAIN frame.kwargs => frame.result.exc.type = "TypeError"

C8_Witness ==
  /\ Returns
  /\ self.cls = "PROSE_Fluids"
  /\ Supplied # None
  /\ \E i \in DOMAIN Supplied.row : Supplied.row[i]

(* C9: with an unrecognized mode forward raises at once: no sub-module is called,
   the keyword arguments are neither bound nor passed on, nothing is allocated and
   the wrapper is as it was, and the error is the one the call without any keyword
   argument ends in, hence the same whatever the other arguments are. *)
C9_UnknownModeFirst ==
  [][(frame.pc = "forward" /\ ~ValidMode(frame.mode)) =>
       /\ frame'.pc = "done"
       /\ frame'.result = Raised(Exc("Exception", "forward", <<"Unknown mode: ", Format(frame.mode)>>))
       /\ frame'.trace = <<>> /\ frame'.loc = Unbound /\ frame'.passed = EmptyMap
       /\ frame'.output = NoDict
       /\ self' = self /\ heap' = heap /\ returned' = returned
       /\ Outcome(frame') = Outcome(Run(self, frame.mode, EmptyMap))]_vars

C9_Witness ==
  /\ Done
  /\ ~ValidMode(frame.mode)
  /\ ~BindOk(frame.kwargs)
  /\ frame.result.exc.type = "Exception"

(* C10: PROSE_1DPDE.fwd returns a mapping no earlier call returned, with exactly the
   keys data_embeded, data_encoded, symbol_encoded, fused and data_output, each
   written once in this call: the embedder's output, the data encoder's output, the
   symbol encoder's output, the fusion output and the inverse-embedded decoder
   output of this call. *)
Keys == {"data_embeded", "data_encoded", "symbol_encoded", "fused", "data_output"}

====
